---- MODULE Spec2Model ----
(***************************************************************************)
(* The Parameter containers of my_ni_pexp/mypet/parameter.py               *)
(* (BaseParameter, Parameter, PickleParameter) as a state machine: two     *)
(* containers of one class, the record a store() returned and the state    *)
(* dictionary a __getstate__() returned, one action per method call.       *)
(* SimpleResult, the container of results, has state machines of its own.  *)
(***************************************************************************)
EXTENDS Integers, Sequences, FiniteSets, TLC

(***************************************************************************)
(* Bounds of the model.                                                    *)
(***************************************************************************)
\* the longest list handed to explore()
MaxLen == 2

(***************************************************************************)
(* Python values.  type is the name of type(value); dtype and shape are    *)
(* those of a numpy array (dtype "" and shape <<>> for everything else);   *)
(* v tells apart the contents of two values of one type; writeable is      *)
(* numpy's flags.writeable (FALSE for everything that is not an array).    *)
(***************************************************************************)
Val(t, d, s, n, w) == [type |-> t, dtype |-> d, shape |-> s, v |-> n, writeable |-> w]

None == Val("NoneType", "", <<>>, 0, FALSE)

PyFloat(n) == Val("float", "", <<>>, n, FALSE)

NdArray(d, s, n) == Val("ndarray", d, s, n, TRUE)

\* the values the callers of the model hand to set() and explore(): two floats,
\* arrays that differ in shape or in dtype, an array no native kind covers
Values == {PyFloat(1), PyFloat(2),
           NdArray("float64", <<2>>, 1), NdArray("float64", <<3>>, 1),
           NdArray("int64", <<2>>, 1), NdArray("object", <<2>>, 1)}

\* the values handed to the two containers of a transfer
TransferValues == {PyFloat(1), PyFloat(2)}

\* the lists of at most n values of S
Lists(S, n) == UNION {[1..k -> S] : k \in 0..n}

(***************************************************************************)
(* Exceptions: the class raised and the head of its message; OK is a       *)
(* normal return.                                                          *)
(***************************************************************************)
Exc(e, m) == [exc |-> e, msg |-> m]

OK == Exc("", "")

\* what a call leaves: the container after it, what it raised, what it returned
Res(self, err, ret) == [self |-> self, err |-> err, ret |-> ret]

(***************************************************************************)
(* globally.PARAMETER_SUPPORTED_DATA: the closed set of natively storable  *)
(* kinds (Int | Float | Bool | String), as names of types.                 *)
(***************************************************************************)
PARAMETER_SUPPORTED_DATA == {"int", "float", "bool", "str"}

\* np.issubdtype(dtype, np.str): the string dtypes are those named S<n>
issubdtype_str(dtype) == dtype \in {"S1", "S5"}

\* the scalar type a numpy dtype compares equal to (np.dtype('float64') == np.float64)
dtype_type(dtype) ==
    CASE dtype = "float64" -> "float"
      [] dtype = "int64" -> "int"
      [] dtype = "bool" -> "bool"
      [] OTHER -> dtype

(***************************************************************************)
(* The containers.  A container is the record of its attributes:           *)
(* data, explored_data, length, locked, fullcopy (the logger is not        *)
(* modelled: it is a function of the name).  explored_data is a tuple or,  *)
(* after shrink(), the empty dict.                                         *)
(***************************************************************************)
Tuple(s) == [tag |-> "tuple", items |-> s]

EmptyDict == [tag |-> "dict", items |-> <<>>]

Classes == {"BaseParameter", "Parameter", "PickleParameter"}

len(self) == self.length

is_array(self) == len(self) > 1

is_locked(self) == self.locked

is_empty(self) == len(self) = 0

lock(self) == Res([self EXCEPT !.locked = TRUE], OK, None)

unlock(self) == Res([self EXCEPT !.locked = FALSE], OK, None)

NotImplemented(self) == Res(self, Exc("NotImplementedError", "Should have implemented this."), None)

\* Parameter._is_supported_data
Parameter_is_supported_data(data) ==
    LET dtype == IF data.type = "ndarray"
                 THEN (IF issubdtype_str(data.dtype) THEN "str" ELSE dtype_type(data.dtype))
                 ELSE data.type
    IN  dtype \in PARAMETER_SUPPORTED_DATA

\* PickleParameter._is_supported_data overrides it
is_supported_data(cls, data) ==
    IF cls = "PickleParameter" THEN TRUE ELSE Parameter_is_supported_data(data)

\* Parameter._values_of_same_type; np.array is numpy's factory function, not a type
values_of_same_type(val1, val2) ==
    IF val1.type # val2.type THEN FALSE
    ELSE IF val1.type = "np.array" /\ val1.dtype # val2.dtype THEN FALSE
    ELSE IF val1.type = "np.array" /\ val1.shape # val2.shape THEN FALSE
    ELSE TRUE

\* Parameter._convert_data: numpy arrays are set immutable
convert_data(val) ==
    IF val.type = "ndarray" THEN [val EXCEPT !.writeable = FALSE] ELSE val

(***************************************************************************)
(* The methods, each as the result of calling it on the container self of  *)
(* class cls.  BaseParameter leaves them unimplemented.                    *)
(***************************************************************************)
\* __init__ without data: BaseParameter.__init__ and Parameter.__init__
new == [data |-> None, explored_data |-> Tuple(<<>>), length |-> 0,
        locked |-> FALSE, fullcopy |-> FALSE]

\* Parameter.set
set(cls, self, data) ==
    IF cls = "BaseParameter" THEN NotImplemented(self)
    ELSE IF is_locked(self)
    THEN Res(self, Exc("ParameterLockedException", "is locked!"), None)
    ELSE IF is_array(self)
    THEN Res(self, Exc("AttributeError", "Your Parameter is an explored array"), None)
    ELSE LET val == convert_data(data) IN
         IF ~is_supported_data(cls, val)
         THEN Res(self, Exc("AttributeError", "Unsupported data type"), None)
         ELSE Res([self EXCEPT !.data = val, !.length = 1], OK, None)

\* Parameter.__init__(fullname, data): set(data) unless data is None
init(cls, data) ==
    IF data = None THEN Res(new, OK, None)
    ELSE IF cls = "BaseParameter"
    THEN Res(new, Exc("TypeError", "__init__() takes exactly 2 arguments"), None)
    ELSE set(cls, new, data)

\* the loop of Parameter._data_sanity_checks from the k-th candidate on, data_tuple
\* holding the converted candidates before it; the message of line 373 names key,
\* which nothing defines
RECURSIVE sanity_loop(_, _, _, _, _)
sanity_loop(cls, self, data_list, k, data_tuple) ==
    IF k > Len(data_list) THEN Res(self, OK, Tuple(data_tuple))
    ELSE LET newval == convert_data(data_list[k]) IN
         IF ~is_supported_data(cls, newval)
         THEN Res(self, Exc("NameError", "global name 'key' is not defined"), None)
         ELSE IF ~values_of_same_type(newval, self.data)
         THEN Res(self, Exc("TypeError", "Data is not of the same type"), None)
         ELSE sanity_loop(cls, self, data_list, k + 1, Append(data_tuple, newval))

\* Parameter._data_sanity_checks
data_sanity_checks(cls, self, data_list) == sanity_loop(cls, self, data_list, 1, <<>>)

\* explore without the lock() that ends it
explore_unlocked(cls, self, explore_list) ==
    IF cls = "BaseParameter" THEN NotImplemented(self)
    ELSE IF is_locked(self)
    THEN Res(self, Exc("ParameterLockedException", "is locked!"), None)
    ELSE IF is_array(self)
    THEN Res(self, Exc("TypeError", "is already explored"), None)
    ELSE LET checked == data_sanity_checks(cls, self, explore_list) IN
         IF checked.err # OK THEN Res(self, checked.err, None)
         ELSE Res([self EXCEPT !.length = Len(checked.ret.items),
                               !.explored_data = checked.ret], OK, None)

\* explore setting the length before the candidates are checked
explore_length_first(cls, self, explore_list) ==
    IF cls = "BaseParameter" THEN NotImplemented(self)
    ELSE IF is_locked(self)
    THEN Res(self, Exc("ParameterLockedException", "is locked!"), None)
    ELSE IF is_array(self)
    THEN Res(self, Exc("TypeError", "is already explored"), None)
    ELSE LET sized == [self EXCEPT !.length = Len(explore_list)]
             checked == data_sanity_checks(cls, self, explore_list)
         IN  IF checked.err # OK THEN Res(sized, checked.err, None)
             ELSE lock([sized EXCEPT !.explored_data = checked.ret])

\* Parameter.explore
explore(cls, self, explore_list) ==
    IF cls = "BaseParameter" THEN NotImplemented(self)
    ELSE IF is_locked(self)
    THEN Res(self, Exc("ParameterLockedException", "is locked!"), None)
    ELSE IF is_array(self)
    THEN Res(self, Exc("TypeError", "is already explored"), None)
    ELSE LET checked == data_sanity_checks(cls, self, explore_list) IN
         IF checked.err # OK THEN Res(self, checked.err, None)
         ELSE lock([self EXCEPT !.length = Len(checked.ret.items),
                                !.explored_data = checked.ret])

\* self._explored_data[n]: a tuple counts a negative n from its end, the dict
\* that shrink() leaves has no key
getitem(explored_data, n) ==
    LET k == Len(explored_data.items) IN
    IF explored_data.tag = "dict" THEN [err |-> Exc("KeyError", "n"), ret |-> None]
    ELSE IF 0 <= n /\ n < k THEN [err |-> OK, ret |-> explored_data.items[n + 1]]
    ELSE IF -k <= n /\ n < 0 THEN [err |-> OK, ret |-> explored_data.items[k + n + 1]]
    ELSE [err |-> Exc("IndexError", "tuple index out of range"), ret |-> None]

\* set_parameter_access reading self._explored_data[0] whatever n is
set_parameter_access_first(cls, self, n) ==
    IF cls = "BaseParameter" THEN NotImplemented(self)
    ELSE IF n >= len(self) /\ is_array(self)
    THEN Res(self, Exc("ValueError", "You try to access the nth parameter"), None)
    ELSE LET item == getitem(self.explored_data, 0) IN
         IF item.err # OK THEN Res(self, item.err, None)
         ELSE Res([self EXCEPT !.data = item.ret], OK, None)

\* Parameter.set_parameter_access
set_parameter_access(cls, self, n) ==
    IF cls = "BaseParameter" THEN NotImplemented(self)
    ELSE IF n >= len(self) /\ is_array(self)
    THEN Res(self, Exc("ValueError", "You try to access the nth parameter"), None)
    ELSE LET item == getitem(self.explored_data, n) IN
         IF item.err # OK THEN Res(self, item.err, None)
         ELSE Res([self EXCEPT !.data = item.ret], OK, None)

\* get without the lock() that starts it
get_unlocked(cls, self) ==
    IF cls = "BaseParameter"
    THEN Res(self, Exc("TypeError", "get() takes exactly 2 arguments"), None)
    ELSE Res(self, OK, self.data)

\* Parameter.get; BaseParameter.get(self, name) cannot be called as get()
get(cls, self) ==
    IF cls = "BaseParameter"
    THEN Res(self, Exc("TypeError", "get() takes exactly 2 arguments"), None)
    ELSE Res(lock(self).self, OK, self.data)

\* str(value)
str(val) == [type |-> "str", of |-> val]

\* to_str without the finally clause that restores the lock
to_str_locking(cls, self) ==
    LET read == get(cls, self)
        text == IF read.err = OK THEN str(read.ret)
                ELSE [type |-> "str", of |-> "No Evaluation possible (yet)!"]
    IN  Res(read.self, OK, text)

\* to_str with a finally clause that clears the lock
to_str_unlocking(cls, self) ==
    LET read == get(cls, self)
        text == IF read.err = OK THEN str(read.ret)
                ELSE [type |-> "str", of |-> "No Evaluation possible (yet)!"]
    IN  Res([read.self EXCEPT !.locked = FALSE], OK, text)

\* BaseParameter.to_str
to_str(cls, self) ==
    LET old_locked == self.locked
        read == get(cls, self)
        text == IF read.err = OK THEN str(read.ret)
                ELSE [type |-> "str", of |-> "No Evaluation possible (yet)!"]
    IN  Res([read.self EXCEPT !.locked = old_locked], OK, text)

\* shrink without the test of the lock
shrink_unguarded(cls, self) ==
    IF cls = "BaseParameter" THEN NotImplemented(self)
    ELSE IF is_empty(self)
    THEN Res(self, Exc("TypeError", "Cannot shrink empty Parameter."), None)
    ELSE Res([self EXCEPT !.explored_data = EmptyDict, !.length = 1], OK, None)

\* Parameter.shrink
shrink(cls, self) ==
    IF cls = "BaseParameter" THEN NotImplemented(self)
    ELSE IF is_empty(self)
    THEN Res(self, Exc("TypeError", "Cannot shrink empty Parameter."), None)
    ELSE IF is_locked(self)
    THEN Res(self, Exc("ParameterLockedException", "is locked!"), None)
    ELSE Res([self EXCEPT !.explored_data = EmptyDict, !.length = 1], OK, None)

\* empty clearing the container without the call of shrink()
empty_without_shrink(cls, self) ==
    IF cls = "BaseParameter" THEN NotImplemented(self)
    ELSE IF is_locked(self)
    THEN Res(self, Exc("ParameterLockedException", "is locked!"), None)
    ELSE Res([self EXCEPT !.data = None, !.length = 0], OK, None)

\* Parameter.empty
empty(cls, self) ==
    IF cls = "BaseParameter" THEN NotImplemented(self)
    ELSE IF is_locked(self)
    THEN Res(self, Exc("ParameterLockedException", "is locked!"), None)
    ELSE LET shrunk == shrink(cls, self) IN
         IF shrunk.err # OK THEN Res(self, shrunk.err, None)
         ELSE Res([shrunk.self EXCEPT !.data = None, !.length = 0], OK, None)

\* Parameter.set_full_copy, for a bool val
set_full_copy(cls, self, val) ==
    IF cls = "BaseParameter"
    THEN Res(self, Exc("AttributeError", "has no attribute 'set_full_copy'"), None)
    ELSE Res([self EXCEPT !.fullcopy = val], OK, None)

(***************************************************************************)
(* Storage records.  An ObjectTable keeps its one column verbatim; a       *)
(* record maps "Data" and, for an explored container, "ExploredData" to a  *)
(* table.                                                                  *)
(***************************************************************************)
\* ObjectTable(data={name: values})
ObjectTable(name, values) == [columns |-> <<name>>, values |-> values]

\* 'data' + PickleParameter.identifier
pickle_column == "data__pckl__"

\* PickleParameter.identifier in data_name
identifier_in(data_name) == data_name = pickle_column

\* pickle.dumps(val)
dumps(val) == [type |-> "bytes", pickled |-> val]

\* pickle.loads(dump): the value again; numpy does not pickle flags.writeable,
\* a loaded array is writeable
loads(dump) ==
    IF dump.pickled.type = "ndarray" THEN [dump.pickled EXCEPT !.writeable = TRUE]
    ELSE dump.pickled

\* table[name]: the column name of a table
column(table, name) ==
    IF name \in {table.columns[k] : k \in DOMAIN table.columns}
    THEN [err |-> OK, ret |-> table.values]
    ELSE [err |-> Exc("KeyError", name), ret |-> <<>>]

\* __store__ writing the ExploredData table whatever is_array() says
Parameter_store_unconditional(self) ==
    LET Data == ObjectTable("data", <<self.data>>)
        ExploredData == ObjectTable("data", self.explored_data.items)
    IN  Res(self, OK, [key \in {"Data", "ExploredData"} |->
                          IF key = "Data" THEN Data ELSE ExploredData])

\* Parameter.__store__
Parameter_store(self) ==
    LET Data == ObjectTable("data", <<self.data>>)
        ExploredData == ObjectTable("data", self.explored_data.items)
    IN  Res(self, OK, IF is_array(self)
                      THEN [key \in {"Data", "ExploredData"} |->
                               IF key = "Data" THEN Data ELSE ExploredData]
                      ELSE [key \in {"Data"} |-> Data])

\* Parameter.__load__
Parameter_load(self, load_dict) ==
    LET data == column(load_dict["Data"], "data") IN
    IF data.err # OK THEN Res(self, data.err, None)
    ELSE LET loaded == [self EXCEPT !.data = data.ret[1]] IN
         IF "ExploredData" \in DOMAIN load_dict
         THEN LET explored == column(load_dict["ExploredData"], "data") IN
              IF explored.err # OK THEN Res(loaded, explored.err, None)
              ELSE Res([loaded EXCEPT !.explored_data = Tuple(explored.ret),
                                      !.length = Len(explored.ret)], OK, None)
         ELSE Res([loaded EXCEPT !.length = 1], OK, None)

\* PickleParameter.__store__
PickleParameter_store(self) ==
    IF ~Parameter_is_supported_data(self.data)
    THEN LET Data == ObjectTable(pickle_column, <<dumps(self.data)>>)
             explore_list == [idx \in DOMAIN self.explored_data.items |->
                                 dumps(self.explored_data.items[idx])]
             ExploredData == ObjectTable(pickle_column, explore_list)
         IN  Res(self, OK, IF is_array(self)
                           THEN [key \in {"Data", "ExploredData"} |->
                                    IF key = "Data" THEN Data ELSE ExploredData]
                           ELSE [key \in {"Data"} |-> Data])
    ELSE Parameter_store(self)

\* PickleParameter.__load__
PickleParameter_load(self, load_dict) ==
    LET data_table == load_dict["Data"]
        data_name == data_table.columns[1]
    IN  IF identifier_in(data_name)
        THEN LET dump == column(data_table, pickle_column).ret[1]
                 loaded == [self EXCEPT !.data = loads(dump)]
             IN  IF "ExploredData" \in DOMAIN load_dict
                 THEN LET pickle_col == column(load_dict["ExploredData"], pickle_column) IN
                      IF pickle_col.err # OK THEN Res(loaded, pickle_col.err, None)
                      ELSE LET explore_list == [idx \in DOMAIN pickle_col.ret |->
                                                   loads(pickle_col.ret[idx])]
                           IN  Res([loaded EXCEPT !.explored_data = Tuple(explore_list),
                                                  !.length = Len(explore_list)], OK, None)
                 ELSE Res(loaded, OK, None)
        ELSE Parameter_load(self, load_dict)

\* __store__ reading the container the way get() does, which locks it
store_locking(cls, self) ==
    CASE cls = "Parameter" -> Parameter_store(lock(self).self)
      [] cls = "PickleParameter" -> PickleParameter_store(lock(self).self)
      [] OTHER -> NotImplemented(self)

\* __store__ of the class
store(cls, self) ==
    CASE cls = "Parameter" -> Parameter_store(self)
      [] cls = "PickleParameter" -> PickleParameter_store(self)
      [] OTHER -> NotImplemented(self)

\* __load__ of the class
load(cls, self, load_dict) ==
    CASE cls = "Parameter" -> Parameter_load(self, load_dict)
      [] cls = "PickleParameter" -> PickleParameter_load(self, load_dict)
      [] OTHER -> NotImplemented(self)

(***************************************************************************)
(* Transfer to another process: __getstate__ gives the dictionary that is  *)
(* pickled, __setstate__ fills the container made on the other side.       *)
(***************************************************************************)
\* __getstate__ keeping the explored data whatever the fullcopy flag is
getstate_full(cls, self) ==
    IF cls = "BaseParameter"
    THEN Res(self, Exc("AttributeError", "has no attribute '__getstate__'"), None)
    ELSE Res(self, OK, self)

\* __getstate__ with result = self.__dict__, not a copy of it
getstate_shared(cls, self) ==
    IF cls = "BaseParameter"
    THEN Res(self, Exc("AttributeError", "has no attribute '__getstate__'"), None)
    ELSE LET result == IF ~self.fullcopy THEN [self EXCEPT !.explored_data = Tuple(<<>>)]
                       ELSE self
         IN  Res(result, OK, result)

\* Parameter.__getstate__: result is a copy of self.__dict__, self keeps its own
getstate(cls, self) ==
    IF cls = "BaseParameter"
    THEN Res(self, Exc("AttributeError", "has no attribute '__getstate__'"), None)
    ELSE LET result == self IN
         Res(self, OK,
             IF ~self.fullcopy THEN [result EXCEPT !.explored_data = Tuple(<<>>)]
             ELSE result)

\* Parameter.__setstate__: self.__dict__.update(statedict)
setstate(cls, self, statedict) ==
    IF cls = "BaseParameter"
    THEN Res(self, Exc("AttributeError", "has no attribute '__setstate__'"), None)
    ELSE Res([name \in DOMAIN self \cup DOMAIN statedict |->
                 IF name \in DOMAIN statedict THEN statedict[name] ELSE self[name]],
             OK, None)

(***************************************************************************)
(* SimpleResult: a dict of items under their names and a comment.  A       *)
(* result is the record of its attributes data and comment; a Python dict  *)
(* is the function from its keys to their values.  data_is_record tells    *)
(* whether _data is the very dict object the caller holds as its record    *)
(* (the dict it handed to __load__), and not a dict the result made.       *)
(***************************************************************************)
PyStr(n) == Val("str", "", <<>>, n, FALSE)

\* an ObjectTable and a pandas DataFrame held as items
TableItem(n) == Val("ObjectTable", "object", <<>>, n, FALSE)

FrameItem(n) == Val("DataFrame", "object", <<>>, n, FALSE)

\* the dict {}
NoItems == [key \in {} |-> None]

\* d[name] = item
setitem(d, name, item) ==
    [key \in DOMAIN d \cup {name} |-> IF key = name THEN item ELSE d[key]]

\* del d[name]
delitem(d, name) == [key \in DOMAIN d \ {name} |-> d[key]]

\* isinstance(item, (np.ndarray, ObjectTable, DataFrame))
isinstance_bulk(item) == item.type \in {"ndarray", "ObjectTable", "DataFrame"}

\* 'res' + str(idx + 1): the names counted from 1
valstr_from_one(idx) == <<"res1", "res2", "res3", "res4">>[idx + 1]

\* 'res' + str(idx), idx counted from 0
valstr(idx) == <<"res0", "res1", "res2", "res3">>[idx + 1]

\* SimpleResult.set_single: the branch of the comment does not return, the tests
\* of the name Info and of the item's type follow it
SimpleResult_set_single(self, name, item) ==
    IF name \in {"comment", "Comment"} /\ item.type # "str"
    THEN Res(self, Exc("AssertionError", ""), None)
    ELSE LET commented == IF name \in {"comment", "Comment"}
                          THEN [self EXCEPT !.comment = item] ELSE self
         IN  IF name = "Info"
             THEN Res(commented, Exc("ValueError", ">>Info<< is reserved"), None)
             ELSE IF isinstance_bulk(item)
             THEN Res([commented EXCEPT !.data = setitem(@, name, item)], OK, None)
             ELSE Res(commented, Exc("TypeError", "is not supported."), None)

\* SimpleResult.__setattr__, for a key that does not start with an underscore
SimpleResult_setattr(self, key, value) == SimpleResult_set_single(self, key, value)

\* the first loop of SimpleResult.set from the k-th positional argument on
RECURSIVE set_args(_, _, _)
set_args(self, args, k) ==
    IF k > Len(args) THEN Res(self, OK, None)
    ELSE LET r == SimpleResult_set_single(self, valstr(k - 1), args[k]) IN
         IF r.err # OK THEN r ELSE set_args(r.self, args, k + 1)

\* the second loop of SimpleResult.set from the k-th pair of kwargs.items() on
RECURSIVE set_kwargs(_, _, _)
set_kwargs(self, items, k) ==
    IF k > Len(items) THEN Res(self, OK, None)
    ELSE LET r == SimpleResult_set_single(self, items[k][1], items[k][2]) IN
         IF r.err # OK THEN r ELSE set_kwargs(r.self, items, k + 1)

\* SimpleResult.set(*args, **kwargs), items the pairs of kwargs.items() in the
\* order the dict yields them
SimpleResult_set(self, args, items) ==
    LET r == set_args(self, args, 1) IN
    IF r.err # OK THEN r ELSE set_kwargs(r.self, items, 1)

\* SimpleResult.__init__(fullname, *args, **kwargs): comment is kwargs.pop('comment',
\* None), items the pairs of what is left of kwargs
SimpleResult_init(args, comment, items) ==
    SimpleResult_set([data |-> NoItems, comment |-> comment, data_is_record |-> FALSE],
                     args, items)

\* SimpleResult.is_empty
SimpleResult_is_empty(self) == Cardinality(DOMAIN self.data) = 0

\* empty that leaves _data as it is
SimpleResult_empty_keeping(self) == Res(self, OK, None)

\* SimpleResult.empty: _data is a new dict
SimpleResult_empty(self) ==
    Res([self EXCEPT !.data = NoItems, !.data_is_record = FALSE], OK, None)

\* SimpleResult.__store__: the record returned is a new dict with the items of
\* _data, not _data
SimpleResult_store(self) == Res([self EXCEPT !.data_is_record = FALSE], OK, self.data)

\* SimpleResult.__load__: _data is load_dict itself
SimpleResult_load(self, load_dict) ==
    Res([self EXCEPT !.data = load_dict, !.data_is_record = TRUE], OK, None)

\* SimpleResult.__delattr__, for an item that does not start with an underscore
SimpleResult_delattr(self, item) ==
    IF item \in DOMAIN self.data
    THEN Res([self EXCEPT !.data = delitem(@, item)], OK, None)
    ELSE Res(self, Exc("AttributeError", "does not contain"), None)

(***************************************************************************)
(* The state machine.                                                      *)
(***************************************************************************)
VARIABLES
    cls,        \* the class of the two containers
    par,        \* the containers: main, and copy (made by a constructor or by unpickling)
    last,       \* the last call: the container, the method, what it raised
    ret,        \* what the last call returned
    explored    \* history: explore() succeeded on the container and unlock() was not called since

vars == <<cls, par, last, ret, explored>>

Objs == {"main", "copy"}

\* the arguments of set_parameter_access
Indices == -1..MaxLen

Init ==
    /\ cls \in Classes
    /\ par = [i \in Objs |-> new]
    /\ last = [obj |-> "main", op |-> "__init__", err |-> OK]
    /\ ret = None
    /\ explored = [i \in Objs |-> FALSE]

\* the call of method op on container i left r
Call(i, op, r) ==
    /\ par' = [par EXCEPT ![i] = r.self]
    /\ last' = [obj |-> i, op |-> op, err |-> r.err]
    /\ ret' = r.ret
    /\ cls' = cls

\* i = Parameter(fullname, data), data from V or left out: the name i is bound
\* to the new container only if nothing is raised
Construct(i, V) ==
    \E data \in V \cup {None} :
        LET r == init(cls, data) IN
        /\ Call(i, "__init__", IF r.err = OK THEN r ELSE Res(par[i], r.err, None))
        /\ explored' = [explored EXCEPT ![i] = IF r.err = OK THEN FALSE ELSE @]

Set(i, V) ==
    \E data \in V :
        /\ Call(i, "set", set(cls, par[i], data))
        /\ UNCHANGED explored

Explore(i, V) ==
    \E explore_list \in Lists(V, MaxLen) :
        LET r == explore(cls, par[i], explore_list) IN
        /\ Call(i, "explore", r)
        /\ explored' = [explored EXCEPT ![i] = IF r.err = OK THEN TRUE ELSE @]

SetParameterAccess(i) ==
    \E n \in Indices :
        /\ Call(i, "set_parameter_access", set_parameter_access(cls, par[i], n))
        /\ UNCHANGED explored

Get(i) ==
    /\ Call(i, "get", get(cls, par[i]))
    /\ UNCHANGED explored

ToStr(i) ==
    /\ Call(i, "to_str", to_str(cls, par[i]))
    /\ UNCHANGED explored

Lock(i) ==
    /\ Call(i, "lock", lock(par[i]))
    /\ UNCHANGED explored

Unlock(i) ==
    /\ Call(i, "unlock", unlock(par[i]))
    /\ explored' = [explored EXCEPT ![i] = FALSE]

Shrink(i) ==
    /\ Call(i, "shrink", shrink(cls, par[i]))
    /\ UNCHANGED explored

Empty(i) ==
    /\ Call(i, "empty", empty(cls, par[i]))
    /\ UNCHANGED explored

SetFullCopy(i) ==
    \E val \in BOOLEAN :
        /\ Call(i, "set_full_copy", set_full_copy(cls, par[i], val))
        /\ UNCHANGED explored

Store(i) ==
    /\ Call(i, "__store__", store(cls, par[i]))
    /\ UNCHANGED explored

\* i.__load__(load_dict), load_dict the record the call before returned
Load(i) ==
    /\ last.op = "__store__" /\ last.err = OK
    /\ Call(i, "__load__", load(cls, par[i], ret))
    /\ UNCHANGED explored

\* the loader of a stored container: i = Cls(fullname), then i.__load__(load_dict),
\* load_dict the record the call before returned
LoadNew(i) ==
    /\ last.op = "__store__" /\ last.err = OK
    /\ Call(i, "__load__ (new)", load(cls, init(cls, None).self, ret))
    /\ explored' = [explored EXCEPT ![i] = FALSE]

GetState(i) ==
    /\ Call(i, "__getstate__", getstate(cls, par[i]))
    /\ UNCHANGED explored

\* i = pickle.loads(...): a container is made without __init__ and given the
\* state dictionary the call before returned
SetState(i) ==
    /\ last.op = "__getstate__" /\ last.err = OK
    /\ Call(i, "__setstate__", setstate(cls, <<>>, ret))
    /\ explored' = [explored EXCEPT ![i] = FALSE]

\* the calls on container i, with values of V
Calls(i, V) ==
    \/ Construct(i, V)
    \/ Set(i, V)
    \/ Explore(i, V)
    \/ SetParameterAccess(i)
    \/ Get(i)
    \/ ToStr(i)
    \/ Lock(i)
    \/ Unlock(i)
    \/ Shrink(i)
    \/ Empty(i)
    \/ SetFullCopy(i)
    \/ Store(i)
    \/ Load(i)
    \/ LoadNew(i)
    \/ GetState(i)
    \/ SetState(i)

\* one container: what is loaded or unpickled takes the place of main
Next == Calls("main", Values)

Spec == Init /\ [][Next]_vars

\* the calls of a transfer on container i, with values of V
TransferCalls(i, V) ==
    \/ Set(i, V)
    \/ Explore(i, V)
    \/ SetParameterAccess(i)
    \/ Get(i)
    \/ Unlock(i)
    \/ SetFullCopy(i)
    \/ GetState(i)
    \/ SetState(i)

\* two containers, of one process or of two: main and what is unpickled as copy,
\* or the other way round
NextTransfer == \E i \in Objs : TransferCalls(i, TransferValues)

InitTransfer == Init /\ cls = "Parameter"

SpecTransfer == InitTransfer /\ [][NextTransfer]_vars

(***************************************************************************)
(* The state machine of a SimpleResult: par holds the result, ret the      *)
(* record the caller holds (the dict the last __store__ returned, which    *)
(* is the one it hands to __load__; None before the first __store__).      *)
(***************************************************************************)
\* the most positional items handed to a constructor
MaxArgs == 2

\* the most named items handed to a constructor
MaxNamed == 1

\* the items handed to a result: the three kinds it takes, a float, a string
Items == {NdArray("float64", <<2>>, 1), TableItem(1), FrameItem(1), PyFloat(1), PyStr(1)}

\* the names given to items
FieldNames == {"a", "res0", "Info", "comment", "Comment"}

\* kwargs.items() of the constructor: at most n pairs of a name and an item, no
\* name twice, comment popped
NamedItems(n) ==
    {items \in Lists((FieldNames \ {"comment"}) \X Items, n) :
        \A j, k \in DOMAIN items : j # k => items[j][1] # items[k][1]}

InitResult ==
    /\ cls = "SimpleResult"
    /\ par = [i \in Objs |-> SimpleResult_init(<<>>, None, <<>>).self]
    /\ last = [obj |-> "main", op |-> "__init__", err |-> OK]
    /\ ret = None
    /\ explored = [i \in Objs |-> FALSE]

\* the call of method op on result i left r; a record that is the result's _data
\* changes with it
ResultCall(i, op, r) ==
    /\ par' = [par EXCEPT ![i] = r.self]
    /\ last' = [obj |-> i, op |-> op, err |-> r.err]
    /\ ret' = IF r.self.data_is_record THEN r.self.data ELSE ret
    /\ UNCHANGED <<cls, explored>>

\* i = SimpleResult(fullname, *args, comment=..., **kwargs): the name i is bound to
\* the new result only if nothing is raised
ResultConstruct(i) ==
    \E args \in Lists(Items, MaxArgs), comment \in {None, PyStr(2)}, items \in NamedItems(MaxNamed) :
        LET r == SimpleResult_init(args, comment, items) IN
        ResultCall(i, "__init__", IF r.err = OK THEN r ELSE Res(par[i], r.err, None))

\* setattr(i, key, value)
ResultSetAttr(i) ==
    \E key \in FieldNames, value \in Items :
        ResultCall(i, "__setattr__", SimpleResult_setattr(par[i], key, value))

\* delattr(i, item)
ResultDelAttr(i) ==
    \E item \in FieldNames \cup {"res1"} :
        ResultCall(i, "__delattr__", SimpleResult_delattr(par[i], item))

ResultEmpty(i) == ResultCall(i, "empty", SimpleResult_empty(par[i]))

\* record = i.__store__()
ResultStore(i) ==
    LET r == SimpleResult_store(par[i]) IN
    /\ par' = [par EXCEPT ![i] = r.self]
    /\ last' = [obj |-> i, op |-> "__store__", err |-> r.err]
    /\ ret' = r.ret
    /\ UNCHANGED <<cls, explored>>

\* i.__load__(record), the record the caller holds
ResultLoad(i) ==
    /\ ret # None
    /\ ResultCall(i, "__load__", SimpleResult_load(par[i], ret))

\* a result that is made, filled and cleared
NextResult ==
    \/ ResultConstruct("main")
    \/ ResultSetAttr("main")
    \/ ResultDelAttr("main")
    \/ ResultEmpty("main")

SpecResult == InitResult /\ [][NextResult]_vars

\* a result that is filled, cleared, stored and loaded
NextRecord ==
    \/ ResultSetAttr("main")
    \/ ResultDelAttr("main")
    \/ ResultEmpty("main")
    \/ ResultStore("main")
    \/ ResultLoad("main")

SpecRecord == InitResult /\ [][NextRecord]_vars

(***************************************************************************)
(* The constructor of SimpleResult alone: ret holds the arguments of the   *)
(* call (the positional items, the comment option, the pairs of the other  *)
(* named items), par the result it makes.                                  *)
(***************************************************************************)
InitConstruct ==
    /\ cls = "SimpleResult"
    /\ par = [i \in Objs |-> SimpleResult_init(<<>>, None, <<>>).self]
    /\ last = [obj |-> "main", op |-> "arguments", err |-> OK]
    /\ ret \in [args : Lists(Items, MaxArgs), comment : {None, PyStr(2)},
                items : NamedItems(MaxNamed)]
    /\ explored = [i \in Objs |-> FALSE]

\* i = SimpleResult(fullname, *ret.args, comment=ret.comment, **ret.items)
ConstructFromArguments(i) ==
    /\ last.op = "arguments"
    /\ LET r == SimpleResult_init(ret.args, ret.comment, ret.items) IN
       /\ par' = [par EXCEPT ![i] = IF r.err = OK THEN r.self ELSE @]
       /\ last' = [obj |-> i, op |-> "__init__", err |-> r.err]
    /\ UNCHANGED <<cls, ret, explored>>

NextConstruct == ConstructFromArguments("main")

SpecConstruct == InitConstruct /\ [][NextConstruct]_vars

(***************************************************************************)
(* The claims.  A step is the call last' names; the error kinds of the     *)
(* specification are the exceptions the code raises for them.              *)
(***************************************************************************)
\* LockedError
LockedError(err) == err.exc = "ParameterLockedException"

\* UnsupportedTypeError as explore raises it: the NameError of line 373
UnsupportedInExplore(err) == err.exc = "NameError"

\* TypeMismatchError
TypeMismatchError(err) == err = Exc("TypeError", "Data is not of the same type")

\* the values of a container: current value, explored values, length
SameValues(a, b) ==
    /\ a.data = b.data
    /\ a.explored_data = b.explored_data
    /\ a.length = b.length

\* two values are type-compatible: the same kind and, for arrays, the same
\* element kind and the same shape
TypeCompatible(a, b) ==
    /\ a.type = b.type
    /\ a.type = "ndarray" => a.dtype = b.dtype /\ a.shape = b.shape

\* the container holds its exploration points: as many values as its length
HoldsPoints(self) ==
    self.explored_data.tag = "tuple" /\ Len(self.explored_data.items) = self.length

\* equal values, whatever their arrays' writeable flags
SameValue(a, b) == [a EXCEPT !.writeable = FALSE] = [b EXCEPT !.writeable = FALSE]

\* C1: once explore() has succeeded on a container, and until unlock() is called
\* on it, every set() and every explore() on it raises ParameterLockedException.
C1_LockedAfterExplore ==
    [][\A i \in Objs :
          (explored[i] /\ last'.obj = i /\ last'.op \in {"set", "explore"})
              => LockedError(last'.err) /\ par'[i] = par[i]]_vars

\* C1 happens: a set() was refused on a container explored and not unlocked since.
C1_Witness ==
    /\ explored["main"] /\ is_array(par["main"])
    /\ last.op = "set" /\ LockedError(last.err)

\* C2 as claimed: on a locked container every call but unlock(), set_parameter_access
\* and __load__ among them, leaves current value, explored values and length.
C2_Original ==
    [][\A i \in Objs :
          (par[i].locked /\ last'.obj = i
             /\ last'.op \in {"set", "explore", "shrink", "empty", "set_parameter_access",
                              "__load__", "get", "__store__"})
              => SameValues(par'[i], par[i])]_vars

\* C2, amended: on a locked container set, explore, shrink and empty raise, and they,
\* get and __store__ leave current value, explored values and length as they were;
\* set_parameter_access and __load__ do not look at the lock.
C2_LockedFrame ==
    [][\A i \in Objs :
          (par[i].locked /\ last'.obj = i
             /\ last'.op \in {"set", "explore", "shrink", "empty", "get", "__store__"})
              => /\ SameValues(par'[i], par[i])
                 /\ last'.op \in {"set", "explore", "shrink", "empty"} => last'.err # OK
                 /\ (last'.op \in {"set", "explore", "empty"} /\ cls # "BaseParameter")
                        => LockedError(last'.err)]_vars

\* C2 happens: shrink() was refused on a locked explored container.
C2_Witness ==
    /\ par["main"].locked /\ is_array(par["main"])
    /\ last.op = "shrink" /\ LockedError(last.err)

\* C3 as claimed: explore(values) on an unlocked Parameter that is not explored
\* succeeds iff every candidate is supported and type-compatible with the current
\* value; an array of another dtype or shape is refused as a type mismatch.
C3_ExploreIffCompatible ==
    [][\A i \in Objs : \A values \in Lists(Values, MaxLen) :
          LET r == explore(cls, par[i], values) IN
          (/\ cls = "Parameter" /\ ~par[i].locked /\ ~is_array(par[i])
           /\ last'.obj = i /\ last'.op = "explore"
           /\ par'[i] = r.self /\ last'.err = r.err)
              => /\ r.err = OK <=>
                        \A k \in DOMAIN values :
                            /\ is_supported_data(cls, values[k])
                            /\ TypeCompatible(values[k], par[i].data)
                 /\ (\E k \in DOMAIN values :
                        /\ \A j \in 1..k : is_supported_data(cls, values[j])
                        /\ \A j \in 1..(k - 1) : TypeCompatible(values[j], par[i].data)
                        /\ ~TypeCompatible(values[k], par[i].data))
                        => TypeMismatchError(r.err)]_vars

\* C4: an explore() that fails on an unsupported or mismatching candidate leaves
\* the container (current value, explored values, length, lock) as it was.
C4_FailedExploreFrame ==
    [][\A i \in Objs :
          (/\ last'.obj = i /\ last'.op = "explore"
           /\ (UnsupportedInExplore(last'.err) \/ TypeMismatchError(last'.err)))
              => par'[i] = par[i]]_vars

\* C4 happens: explore() failed on a mismatching candidate, on an unlocked
\* container holding one value.
C4_Witness ==
    /\ last.op = "explore" /\ TypeMismatchError(last.err)
    /\ par["main"].length = 1 /\ ~par["main"].locked /\ par["main"].data # None

\* the step is set_parameter_access(n) on container i
IsSetParameterAccess(i, n) ==
    LET r == set_parameter_access(cls, par[i], n) IN
    /\ last'.obj = i /\ last'.op = "set_parameter_access"
    /\ par'[i] = r.self /\ last'.err = r.err

\* C5 as claimed: on every explored container set_parameter_access(n), then get(),
\* returns the n-th explored value for n in [0, length), and
\* set_parameter_access(length) raises.
C5_Original ==
    [][\A i \in Objs : \A n \in Indices :
          (is_array(par[i]) /\ IsSetParameterAccess(i, n))
              => /\ (0 <= n /\ n < par[i].length)
                        => /\ last'.err = OK
                           /\ n + 1 \in DOMAIN par[i].explored_data.items
                           /\ get(cls, par'[i]).ret = par[i].explored_data.items[n + 1]
                 /\ n = par[i].length => last'.err.exc = "ValueError"]_vars

\* C5, amended: the same on every explored container that holds its exploration
\* points (one unpickled from a point-transfer state holds none).
C5_SelectPoint ==
    [][\A i \in Objs : \A n \in Indices :
          (is_array(par[i]) /\ IsSetParameterAccess(i, n))
              => /\ (0 <= n /\ n < par[i].length /\ HoldsPoints(par[i]))
                        => /\ last'.err = OK
                           /\ get(cls, par'[i]).ret = par[i].explored_data.items[n + 1]
                 /\ n = par[i].length => last'.err.exc = "ValueError"]_vars

\* C5 happens: the second of two different points was selected.
C5_Witness ==
    /\ last.op = "set_parameter_access" /\ last.err = OK
    /\ is_array(par["main"]) /\ HoldsPoints(par["main"])
    /\ par["main"].data = par["main"].explored_data.items[2]
    /\ par["main"].data # par["main"].explored_data.items[1]

\* C6 as claimed: loading the record a container of one value or an explored one
\* stored into a new container of its class gives the same get(), is_array() and
\* length (stated for the containers that hold their exploration points).
C6_RoundTrip ==
    [][\A i \in Objs :
          (/\ cls \in {"Parameter", "PickleParameter"}
           /\ last.op = "__store__" /\ last.err = OK
           /\ par[last.obj].length >= 1
           /\ is_array(par[last.obj]) => HoldsPoints(par[last.obj])
           /\ last'.obj = i /\ last'.op = "__load__ (new)")
              => /\ last'.err = OK
                 /\ SameValue(get(cls, par'[i]).ret, get(cls, par[last.obj]).ret)
                 /\ is_array(par'[i]) = is_array(par[last.obj])
                 /\ par'[i].length = par[last.obj].length]_vars

\* the step unpickles as container i the state of a point transfer of an explored
\* container that holds its points
IsPointTransfer(i) ==
    /\ last.op = "__getstate__" /\ last.err = OK
    /\ ~par[last.obj].fullcopy
    /\ is_array(par[last.obj]) /\ HoldsPoints(par[last.obj])
    /\ last'.obj = i /\ last'.op = "__setstate__"

\* C7 as claimed: the state of a point transfer has no explored values, and on the
\* container unpickled from it set_parameter_access(n), then get(), returns the
\* n-th explored value for n in [0, length).
C7_Original ==
    [][\A i \in Objs :
          IsPointTransfer(i)
              => /\ ret.explored_data = Tuple(<<>>)
                 /\ \A n \in 0..(par'[i].length - 1) :
                        LET r == set_parameter_access(cls, par'[i], n) IN
                        /\ r.err = OK
                        /\ get(cls, r.self).ret = par[last.obj].explored_data.items[n + 1]]_vars

\* C7, amended: the state of a point transfer has no explored values and keeps
\* current value, length and lock; get() on the container unpickled from it returns
\* the value that was current when the state was taken, and set_parameter_access(n)
\* raises IndexError for every n in [0, length) and leaves that value.
C7_PointTransfer ==
    [][\A i \in Objs :
          IsPointTransfer(i)
              => /\ ret.explored_data = Tuple(<<>>)
                 /\ par'[i].explored_data = Tuple(<<>>)
                 /\ par'[i].data = par[last.obj].data
                 /\ par'[i].length = par[last.obj].length
                 /\ par'[i].locked = par[last.obj].locked
                 /\ get(cls, par'[i]).ret = par[last.obj].data
                 /\ \A n \in 0..(par'[i].length - 1) :
                        LET r == set_parameter_access(cls, par'[i], n) IN
                        /\ r.err.exc = "IndexError"
                        /\ r.self = par'[i]]_vars

\* C7 happens: a container was unpickled from the point-transfer state of an
\* explored container whose current value was the float 2.
C7_Witness ==
    /\ last.op = "__setstate__" /\ last.err = OK
    /\ is_array(par["main"]) /\ ~par["main"].fullcopy
    /\ par["main"].explored_data = Tuple(<<>>)
    /\ par["main"].data = convert_data(PyFloat(2))

\* C8: the container unpickled from a full-copy state has the current value, the
\* explored values, the length and the lock of the original; __getstate__ leaves
\* the original as it was in both modes; a call on one container leaves the other.
C8_FullTransfer ==
    [][\A i \in Objs :
          /\ (/\ last.op = "__getstate__" /\ last.err = OK /\ par[last.obj].fullcopy
              /\ last'.obj = i /\ last'.op = "__setstate__")
                 => /\ SameValues(par'[i], par[last.obj])
                    /\ par'[i].locked = par[last.obj].locked
          /\ (last'.obj = i /\ last'.op = "__getstate__") => par'[i] = par[i]
          /\ last'.obj # i => par'[i] = par[i]]_vars

\* C8 happens: copy was unpickled from the full-copy state of the explored main.
C8_Witness ==
    /\ last.op = "__setstate__" /\ last.obj = "copy" /\ last.err = OK
    /\ par["main"].fullcopy /\ is_array(par["main"]) /\ HoldsPoints(par["main"])
    /\ par["copy"] = par["main"]

\* C9: get() on a Parameter returns its current value and leaves it locked, value,
\* explored values and length unchanged; a second get() returns the same and
\* changes nothing.
C9_GetLocks ==
    [][\A i \in Objs :
          (cls # "BaseParameter" /\ last'.obj = i /\ last'.op = "get")
              => /\ last'.err = OK /\ ret' = par[i].data
                 /\ par'[i].locked
                 /\ SameValues(par'[i], par[i])
                 /\ (last.obj = i /\ last.op = "get") => ret' = ret /\ par'[i] = par[i]]_vars

\* C9 happens: get() returned the value of a container of one value that
\* explore() never locked.
C9_Witness ==
    /\ last.op = "get" /\ last.err = OK
    /\ par["main"].length = 1 /\ par["main"].locked /\ ~explored["main"]
    /\ ret = par["main"].data /\ ret # None

\* C10: to_str() leaves the lock as it was, on a locked container, on an unlocked
\* one, and when get() raises (where it returns the fallback text).
C10_ToStrKeepsLock ==
    [][\A i \in Objs :
          (last'.obj = i /\ last'.op = "to_str")
              => /\ par'[i].locked = par[i].locked
                 /\ last'.err = OK
                 /\ get(cls, par[i]).err # OK
                        => ret' = [type |-> "str", of |-> "No Evaluation possible (yet)!"]]_vars

\* C10 happens: to_str() gave the text of the value of an unlocked Parameter.
C10_Witness ==
    /\ last.op = "to_str" /\ cls = "Parameter"
    /\ ~par["main"].locked /\ par["main"].length = 1
    /\ ret = str(par["main"].data)

\* C11: a call of set, explore, get, set_parameter_access, shrink, empty, __store__,
\* __load__, to_str or lock on a locked container leaves it locked, whether the call
\* raises or not; only unlock() clears the lock of a container.
C11_OnlyUnlockUnlocks ==
    [][\A i \in Objs :
          (par[i].locked /\ last'.obj = i
             /\ last'.op \in {"set", "explore", "get", "set_parameter_access", "shrink",
                              "empty", "__store__", "__load__", "to_str", "lock"})
              => par'[i].locked]_vars

\* C11 happens: a point was selected on a locked explored container, which is
\* still locked.
C11_Witness ==
    /\ last.op = "set_parameter_access" /\ last.err = OK
    /\ par["main"].locked /\ explored["main"] /\ is_array(par["main"])

\* the current value (if there is one) and the explored values of a container are
\* pairwise type-compatible
OneKind(self) ==
    LET held == {self.explored_data.items[k] : k \in DOMAIN self.explored_data.items}
                    \cup (IF self.data = None THEN {} ELSE {self.data})
    IN  \A a \in held : \A b \in held : TypeCompatible(a, b)

\* C12 as claimed: in every reachable state of a Parameter the current value and
\* the explored values are of one kind, pairwise type-compatible.
C12_OneKind == cls = "Parameter" => OneKind(par["main"])

\* the step is __store__() on container i of class Parameter
IsParameterStore(i) ==
    cls = "Parameter" /\ last'.obj = i /\ last'.op = "__store__"

\* the Data table of a record has the one row val, its ExploredData table is there
\* iff the container is explored
DataAndKey(record, self) ==
    /\ record["Data"] = ObjectTable("data", <<self.data>>)
    /\ "ExploredData" \in DOMAIN record <=> is_array(self)

\* C13 as claimed: the record Parameter.__store__ returns has one Data row with the
\* current value and ExploredData iff is_array(), with length rows in exploration
\* order, on every reachable container, an unpickled one included.
C13_Original ==
    [][\A i \in Objs :
          IsParameterStore(i)
              => /\ last'.err = OK
                 /\ DataAndKey(ret', par[i])
                 /\ is_array(par[i])
                        => /\ Len(ret'["ExploredData"].values) = par[i].length
                           /\ ret'["ExploredData"].values = par[i].explored_data.items]_vars

\* C13, amended: the same, the rows of ExploredData being the explored values the
\* container holds: length rows when it holds its points, none on a container
\* unpickled from a point-transfer state.
C13_StoreRecord ==
    [][\A i \in Objs :
          IsParameterStore(i)
              => /\ last'.err = OK
                 /\ DataAndKey(ret', par[i])
                 /\ par'[i] = par[i]
                 /\ is_array(par[i])
                        => /\ ret'["ExploredData"] =
                                  ObjectTable("data", par[i].explored_data.items)
                           /\ HoldsPoints(par[i])
                                  => Len(ret'["ExploredData"].values) = par[i].length
                           /\ ~HoldsPoints(par[i])
                                  => ret'["ExploredData"].values = <<>>]_vars

\* C13 happens: an explored Parameter holding two different points was stored.
C13_Witness ==
    /\ cls = "Parameter" /\ last.op = "__store__" /\ last.err = OK
    /\ is_array(par["main"]) /\ HoldsPoints(par["main"])
    /\ "ExploredData" \in DOMAIN ret
    /\ Len(ret["ExploredData"].values) = 2
    /\ ret["ExploredData"].values[1] # ret["ExploredData"].values[2]

\* the rows of table ExploredData of a record, whatever its column is named
ExploredRows(record) == Len(record["ExploredData"].values)

\* C14 as claimed: after __load__(record), on a Parameter and on a PickleParameter
\* (records with the __pckl__ column and records without), the length is the
\* number of rows of ExploredData if the record has that table and 1 if not.
C14_LoadLength ==
    [][\A i \in Objs :
          (/\ cls \in {"Parameter", "PickleParameter"}
           /\ last.op = "__store__" /\ last.err = OK
           /\ last'.obj = i /\ last'.op \in {"__load__", "__load__ (new)"})
              => /\ last'.err = OK
                 /\ par'[i].length = IF "ExploredData" \in DOMAIN ret
                                      THEN ExploredRows(ret) ELSE 1]_vars

\* row k of a table holds val as PickleParameter is said to store it: pickled, in
\* the column data__pckl__, iff Parameter._is_supported_data rejects val, and as it
\* is, in the column data, if not
StoredPerValue(table, k, val) ==
    IF Parameter_is_supported_data(val)
    THEN table.columns = <<"data">> /\ table.values[k] = val
    ELSE table.columns = <<pickle_column>> /\ table.values[k] = dumps(val)

\* C15 as claimed: PickleParameter.__store__ decides value by value, the current
\* value and every explored value.
C15_PerValue ==
    [][\A i \in Objs :
          (cls = "PickleParameter" /\ last'.obj = i /\ last'.op = "__store__")
              => /\ last'.err = OK
                 /\ StoredPerValue(ret'["Data"], 1, par[i].data)
                 /\ "ExploredData" \in DOMAIN ret'
                        => \A k \in DOMAIN par[i].explored_data.items :
                               StoredPerValue(ret'["ExploredData"], k,
                                              par[i].explored_data.items[k])]_vars

\* EmptyContainerError as shrink raises it
EmptyContainerError(err) == err = Exc("TypeError", "Cannot shrink empty Parameter.")

\* the step is empty() on container i of a class that implements it
IsEmpty(i) ==
    cls # "BaseParameter" /\ last'.obj = i /\ last'.op = "empty"

\* the container was cleared: no value, length 0, no explored value
Cleared(self) ==
    self.data = None /\ self.length = 0 /\ self.explored_data.items = <<>>

\* C16 as claimed: empty() raises in the states in which shrink() raises and raises
\* the same: EmptyContainerError if the length is 0, if not LockedError if locked;
\* if it does not raise the container is cleared.
C16_Original ==
    [][\A i \in Objs :
          IsEmpty(i)
              => /\ last'.err # OK <=> shrink(cls, par[i]).err # OK
                 /\ last'.err = shrink(cls, par[i]).err
                 /\ par[i].length = 0 => EmptyContainerError(last'.err)
                 /\ (par[i].length # 0 /\ par[i].locked) => LockedError(last'.err)
                 /\ last'.err = OK => Cleared(par'[i])]_vars

\* C16, amended: empty() raises in the states in which shrink() raises, and tests
\* the lock first: LockedError if locked (an empty container too), if not
\* EmptyContainerError if the length is 0; a call that raises changes nothing, one
\* that does not clears the container.
C16_EmptyAsShrink ==
    [][\A i \in Objs :
          IsEmpty(i)
              => /\ last'.err # OK <=> shrink(cls, par[i]).err # OK
                 /\ par[i].locked => LockedError(last'.err)
                 /\ (~par[i].locked /\ par[i].length = 0) => EmptyContainerError(last'.err)
                 /\ last'.err # OK => par'[i] = par[i]
                 /\ last'.err = OK => Cleared(par'[i]) /\ ~par'[i].locked]_vars

\* C16 happens: empty() was refused on a locked container that holds nothing.
C16_Witness ==
    /\ cls # "BaseParameter" /\ last.op = "empty" /\ LockedError(last.err)
    /\ par["main"].locked /\ par["main"].length = 0

\* C17 as claimed: explore(values) on a container that holds nothing (length 0,
\* not locked) raises for every list, the empty one included, and leaves the
\* container empty and its lock as it was.
C17_ExploreOnEmpty ==
    [][\A i \in Objs :
          (/\ cls # "BaseParameter" /\ par[i].length = 0 /\ ~par[i].locked
           /\ last'.obj = i /\ last'.op = "explore")
              => /\ last'.err # OK
                 /\ par'[i].length = 0
                 /\ par'[i].locked = par[i].locked]_vars

\* C18 as claimed: set_parameter_access(n) raises exactly when n is outside
\* [0, length): it sets the current value for n = 0 on a container of one value,
\* and raises for every negative n and every n >= length.
C18_SelectIffInRange ==
    [][\A i \in Objs : \A n \in Indices :
          (cls # "BaseParameter" /\ IsSetParameterAccess(i, n))
              => (last'.err # OK <=> (n < 0 \/ n >= par[i].length))]_vars

\* the step is setattr(i, key, value) on result i
IsSetField(i, key, value) ==
    LET r == SimpleResult_setattr(par[i], key, value) IN
    /\ last'.obj = i /\ last'.op = "__setattr__"
    /\ par'[i] = r.self /\ last'.err = r.err

\* C19 as claimed: setting the name comment or Comment succeeds, sets the comment
\* and stores no item; the name Info raises ValueError; any other name stores an
\* array, an ObjectTable or a DataFrame under it and raises TypeError for
\* anything else; a call that raises leaves the items as they were.
C19_SetField ==
    [][\A i \in Objs : \A key \in FieldNames : \A value \in Items :
          IsSetField(i, key, value)
              => /\ key \in {"comment", "Comment"}
                        => /\ last'.err = OK
                           /\ par'[i].comment = value
                           /\ par'[i].data = par[i].data
                 /\ key = "Info" => last'.err.exc = "ValueError"
                 /\ (key \notin {"comment", "Comment", "Info"} /\ isinstance_bulk(value))
                        => last'.err = OK /\ par'[i].data = setitem(par[i].data, key, value)
                 /\ (key \notin {"comment", "Comment", "Info"} /\ ~isinstance_bulk(value))
                        => last'.err.exc = "TypeError"
                 /\ last'.err # OK => par'[i].data = par[i].data]_vars

\* the names of the pairs of kwargs.items()
NamesOf(items) == {items[j][1] : j \in DOMAIN items}

\* the name the claim gives the k-th positional item, k counted from 1
ResLabel(k) == <<"res0", "res1", "res2", "res3">>[k]

\* the names res0 ... res(k-1) of k positional items
PositionalNames(args) == {ResLabel(k) : k \in DOMAIN args}

\* the named items are stored under their names and there is no item comment
NamedStored(self, items) ==
    /\ \A j \in DOMAIN items : items[j][1] \in DOMAIN self.data
                                  /\ self.data[items[j][1]] = items[j][2]
    /\ "comment" \notin DOMAIN self.data

\* C20 as claimed: a SimpleResult made with positional items, named items and a
\* comment holds the k-th positional item under res(k-1), every named item under
\* its name, the comment as its comment and no item for the comment.
C20_Original ==
    (last.op = "__init__" /\ last.err = OK)
        => /\ \A k \in DOMAIN ret.args :
                  /\ ResLabel(k) \in DOMAIN par["main"].data
                  /\ par["main"].data[ResLabel(k)] = ret.args[k]
           /\ NamedStored(par["main"], ret.items)
           /\ par["main"].comment = ret.comment

\* C20, amended: the constructor succeeds iff every item is an array, an
\* ObjectTable or a DataFrame and no named item is called Info or Comment; the
\* result then holds every named item under its name, the k-th positional item
\* under res(k-1) unless a named item has that name, nothing else, and the comment
\* as its comment.
C20_Construct ==
    last.op = "__init__"
        => /\ last.err = OK <=>
                  /\ \A k \in DOMAIN ret.args : isinstance_bulk(ret.args[k])
                  /\ \A j \in DOMAIN ret.items :
                         /\ isinstance_bulk(ret.items[j][2])
                         /\ ret.items[j][1] \notin {"Info", "Comment"}
           /\ last.err = OK
                  => /\ DOMAIN par["main"].data =
                            PositionalNames(ret.args) \cup NamesOf(ret.items)
                     /\ \A k \in DOMAIN ret.args :
                            ResLabel(k) \notin NamesOf(ret.items)
                                => par["main"].data[ResLabel(k)] = ret.args[k]
                     /\ NamedStored(par["main"], ret.items)
                     /\ par["main"].comment = ret.comment

\* C20 happens: a result was made of two different positional items, a named item
\* and a comment.
C20_Witness ==
    /\ last.op = "__init__" /\ last.err = OK
    /\ Len(ret.args) = 2 /\ ret.args[1] # ret.args[2]
    /\ Len(ret.items) = 1 /\ ret.items[1][1] = "a"
    /\ ret.comment = PyStr(2)
    /\ DOMAIN par["main"].data = {"res0", "res1", "a"}
    /\ par["main"].data["res0"] = ret.args[1]
    /\ par["main"].comment = PyStr(2)

\* the result holds no item
HoldsNothing(self) == DOMAIN self.data = {}

\* the step is one of the calls on result i that C21 names
IsResultCall(i) ==
    last'.obj = i /\ last'.op \in {"__setattr__", "__delattr__", "empty", "__store__", "__load__"}

\* C21 as claimed: once a setattr has stored an item is_empty() is false for good,
\* whatever setattr, delattr, empty, __store__ and __load__ follow.  (A result
\* starts without items and gets items from setattr alone, so a result that holds
\* an item is one on which a setattr has stored an item: the claim is that no
\* call takes a result with items to one that reports itself empty.)
C21_Original ==
    [][\A i \in Objs :
          (IsResultCall(i) /\ ~SimpleResult_is_empty(par[i]))
              => ~SimpleResult_is_empty(par'[i])]_vars

\* C21, amended: is_empty() is true iff the result holds no item.  It is false
\* after a setattr that stored an item, and true again after empty(), after the
\* delattr of the only item and after the __load__ of a record without items;
\* __store__ and a call that raises leave it as it was.
C21_IsEmpty ==
    [][\A i \in Objs :
          IsResultCall(i)
              => /\ SimpleResult_is_empty(par'[i]) <=> HoldsNothing(par'[i])
                 /\ (last'.op = "__setattr__" /\ last'.err = OK) => ~HoldsNothing(par'[i])
                 /\ last'.op = "empty" => last'.err = OK /\ HoldsNothing(par'[i])
                 /\ (last'.op = "__delattr__" /\ last'.err = OK)
                        => (HoldsNothing(par'[i]) <=> Cardinality(DOMAIN par[i].data) = 1)
                 /\ last'.op = "__load__" => (HoldsNothing(par'[i]) <=> DOMAIN ret = {})
                 /\ (last'.op = "__store__" \/ last'.err # OK)
                        => par'[i].data = par[i].data]_vars

\* C21 happens: empty() cleared a result whose items had been stored in a record.
C21_Witness ==
    /\ last.op = "empty" /\ last.err = OK
    /\ SimpleResult_is_empty(par["main"])
    /\ ret # None /\ DOMAIN ret # {}

\* C22 as claimed: in every reachable state of a Parameter is_empty() holds iff the
\* container has no current value (its data is None).
C22_EmptyIffNoData ==
    cls = "Parameter" => (is_empty(par["main"]) <=> par["main"].data = None)

\* C23: __store__() on a Parameter and on a PickleParameter returns a record and
\* leaves the container as it was, its lock (unlike get()), its current value, its
\* explored values and its length; a __store__() that follows returns an equal
\* record.
C23_StorePure ==
    [][\A i \in Objs :
          (cls \in {"Parameter", "PickleParameter"} /\ last'.obj = i /\ last'.op = "__store__")
              => /\ last'.err = OK
                 /\ par'[i] = par[i]
                 /\ store(cls, par'[i]).ret = ret'
                 /\ (last.obj = i /\ last.op = "__store__") => ret' = ret]_vars

\* C23 happens: an unlocked PickleParameter that holds one value no native kind
\* covers was stored and is still unlocked; to store it again gives the same record.
C23_Witness ==
    /\ cls = "PickleParameter" /\ last.op = "__store__" /\ last.err = OK
    /\ ~par["main"].locked /\ par["main"].length = 1
    /\ ret["Data"] = ObjectTable(pickle_column, <<dumps(par["main"].data)>>)
    /\ ret = store(cls, par["main"]).ret

\* C24 as claimed: the record the caller holds, one that __store__ returned or one
\* it handed to __load__, is not changed by a setattr, a delattr or an empty() on
\* the result that follows.
C24_RecordFrame ==
    [][\A i \in Objs :
          (/\ ret # None
           /\ last'.obj = i /\ last'.op \in {"__setattr__", "__delattr__", "empty"})
              => ret' = ret]_vars

====
